---------------------------- MODULE Spec2Model ----------------------------
(***************************************************************************)
(* A model of the Dongchedi parser: the attribute normalizer               *)
(* (configuration_parser.py), the image download of the page parser        *)
(* (main_page_parser.py) and the cursor-based PDF writer (pdf_creator.py). *)
(*                                                                         *)
(* Text is modelled as a sequence of characters.  A character is a TLA+    *)
(* string; a character outside ASCII is written as a name in angle         *)
(* brackets ("<tu>" is U+56FE).  Python's False is kept apart from the     *)
(* empty string: a Python value is a record [str, s].                      *)
(***************************************************************************)
EXTENDS Integers, Sequences, FiniteSets, TLC

VARIABLES
    \* ---- inputs and result of one call of get_validate_and_translate_value
    cells,                  \* texts of the row's value cells, in document order
    value_pc,               \* "ready" before the call, "done" after it
    value_out,              \* what the call returned
    \* ---- the lookup configuration (config.json, test_names_translation.json,
    \*      parameters_values_translation.values_translation)
    with_empty_parameters,  \* config['with_empty_parameters'], 0 or 1
    values_translation,     \* cleaned value -> display value
    names_dict,             \* raw label -> <<display name, enabled flag>>
    \* ---- one pass of get_data
    data_pc,                \* "idle", "rows" (inside the for loop), "done"
    n_rows,                 \* number of rows get_html_elements returned
    row_no,                 \* number of rows the loop has handled
    seen,                   \* raw label of every handled row (bookkeeping)
    result,                 \* the list get_data builds
    \* ---- the car_data directory and one PDFWriter
    car_dir,                \* [exists, files]: what os.listdir("car_data") shows
    y_cursor,               \* PDFWriter.y_cursor
    pages,                  \* number of showPage() calls on the canvas
    saved,                  \* number of canvas.save() calls
    pdf_pc,                 \* "idle", or "items" inside draw_car_info's loop
    items_left,             \* items of config_items not yet drawn
    calls,                  \* number of writer methods called so far
    last_lines,             \* the lines drawn by the last text step
    last_images,            \* the images drawn by the last draw_images_from_dir
    \* ---- one call of create_pdf
    render_pc,              \* position inside create_pdf
    render_flag,            \* main_app_flag
    text_pages,             \* pages that hold a text line (bookkeeping)
    image_pages,            \* pages that hold an image (bookkeeping)
    text_end,               \* [y, pages] when draw_car_info returned (bookkeeping)
    \* ---- one direct call of _draw_text_block
    block_text,             \* the text of the last call, a sequence of word widths
    block_before,           \* [y, pages] before the last call, and the number
                            \* that call has among the writer's calls (bookkeeping)
    \* ---- one call of _extract_images
    page_srcs,              \* src of every img element of the page, in order
    images,                 \* the list _extract_images returned
    extract_pc,             \* "ready" before the call, "done" after it
    \* ---- the lookup files on disk
    lookup_files,           \* [names, config]: test_names_translation.json, config.json
    lookup_edits,           \* what the settings window last wrote, and the row
                            \* get_data was at (bookkeeping)
    lookup_start,           \* the files as the running pass found them (bookkeeping)
    \* ---- one mileage block of draw_car_info
    mileage_e5,             \* car_data['mileage'] in units of 0.00001
    mileage_line,           \* the text of the block
    mileage_pc,             \* "ready" before the block is built, "done" after it
    \* ---- the window of main_app and its worker thread
    button,                 \* state of parse_button: "normal" or "disabled"
    queue,                  \* CarParserApp.queue: the kinds of the messages in it
    worker_pc,              \* position of _parse_worker, "idle" if no worker runs
    scalar_field,           \* the field _text_to_float was last called for
    scalar_text,            \* the text it was given
    record_saved,           \* this run has written car_data/info.json
    images_downloaded,      \* this run has called download_images
    pdf_saved,              \* this run's create_pdf has reached writer.save()
    run_msgs,               \* kinds of the messages this run has put (bookkeeping)
    shown,                  \* kind of the last line appended to result_text
    workers,                \* worker threads that have not put their "finish" yet
    ending,                 \* worker threads that have put it and have not ended yet
    \* the settings window (app.py)
    parameters_dict,        \* state.parameters_dict: label -> <<display name, flag>>
    parameter_vars,         \* state.parameter_vars: label -> value of its IntVar
    empty_parameters_var,   \* state.with_empty_parameters, an IntVar
    parameters_loaded       \* the translation file as _load_config read it (bookkeeping)

valueVars == <<cells, value_pc, value_out>>
cfgVars   == <<with_empty_parameters, values_translation, names_dict>>
dataVars  == <<data_pc, n_rows, row_no, seen, result>>
pdfVars   == <<car_dir, y_cursor, pages, saved, pdf_pc, items_left, calls,
               last_lines, last_images>>
renderVars  == <<render_pc, render_flag, text_pages, image_pages, text_end>>
blockVars   == <<block_text, block_before>>
extractVars == <<page_srcs, images, extract_pc>>
fileVars    == <<lookup_files, lookup_edits, lookup_start>>
mileageVars == <<mileage_e5, mileage_line, mileage_pc>>
appVars     == <<button, queue, worker_pc, scalar_field, scalar_text, record_saved,
                 images_downloaded, pdf_saved, run_msgs, shown, workers, ending>>

settingsVars == <<parameters_dict, parameter_vars, empty_parameters_var, parameters_loaded>>

\* what neither the normalizer nor a public method of the writer touches
outVars   == <<blockVars, extractVars, fileVars, mileageVars, appVars, settingsVars>>
vars      == <<valueVars, cfgVars, dataVars, pdfVars, renderVars, outVars>>

-----------------------------------------------------------------------------
(* Bounds of the model *)

MaxCells == 2       \* value cells of one row (SpecValue)
MaxRows  == 3       \* rows of one configuration page (SpecData)
MaxLines == 2       \* wrapped lines of one text block
MaxItems == 12      \* name/value items of one draw_car_info call
MaxCalls == 3       \* writer methods called on one PDFWriter
MaxImages == 10     \* image URLs of one listing
MaxRenderItems == 23    \* name/value items of the record create_pdf renders
MaxSrcs == 3        \* img elements of one listing page (SpecExtract)
MaxMileageSteps == 60   \* mileages drawn at equal steps (SpecMileage)
MileageStep == 9973     \* the step between them, in units of 0.00001
MaxScalarChars == 3     \* characters of a price or mileage text (SpecApp)
MaxEnding == 2          \* worker threads between their last put and their end
MaxLabels == 3          \* labels of the translation file (SpecSettings)

-----------------------------------------------------------------------------
(* Characters and literals of the source *)

CIRCLE == "<circle>"                    \* U+25CB, the option marker
TU     == "<tu>"                        \* U+56FE
SHI    == "<shi>"                       \* U+793A
MA     == "<ma>"                        \* U+9A6C
LI     == "<li>"                        \* U+529B
BAN    == "<ban>"                       \* U+7248
BEN    == "<ben>"                       \* U+672C

CVT      == <<"C", "V", "T">>
VARIATOR == <<"<Ve>", "<a>", "<er>", "<i>", "<a>", "<te>", "<o>", "<er>">>
OPTION   == <<"o", "p", "t", "i", "o", "n">>
DASH     == <<"-">>
SEP      == <<",", " ">>                \* the ', ' appended after every value

\* constants.SPECIAL_REPLACEMENTS, in insertion order
SPECIAL_REPLACEMENTS ==
    << [find |-> <<TU, SHI>>,  replace |-> <<>>],
       [find |-> <<MA, LI>>,   replace |-> <<" ", "<el>", ".", "<es>", ".">>],
       [find |-> <<BAN, BEN>>, replace |-> <<"<Ve>", "<e>", "<er>", "<es>", "<i>", "<ya>">>] >>

-----------------------------------------------------------------------------
(* Python values and string methods *)

PyFalse  == [str |-> FALSE, s |-> <<>>]
PyStr(s) == [str |-> TRUE,  s |-> s]

\* bool(v): False and '' are falsy
Truthy(v) == v.str /\ v.s # <<>>

\* s.startswith(p)
StartsWith(s, p) == Len(s) >= Len(p) /\ SubSeq(s, 1, Len(p)) = p

\* p in s, for a non-empty substring p
Contains(s, p) == \E i \in 1..(Len(s) - Len(p) + 1) : SubSeq(s, i, i + Len(p) - 1) = p

\* s.replace(find, rep): non-overlapping occurrences, left to right
RECURSIVE StrReplace(_, _, _)
StrReplace(s, find, rep) ==
    IF Len(s) < Len(find) THEN s
    ELSE IF StartsWith(s, find)
         THEN rep \o StrReplace(SubSeq(s, Len(find) + 1, Len(s)), find, rep)
         ELSE <<Head(s)>> \o StrReplace(Tail(s), find, rep)

\* s.rstrip(chars): drops every trailing character that is in chars
RECURSIVE RStrip(_, _)
RStrip(s, chars) ==
    IF s # <<>> /\ s[Len(s)] \in chars THEN RStrip(SubSeq(s, 1, Len(s) - 1), chars)
    ELSE s

-----------------------------------------------------------------------------
(* configuration_parser.validate_value *)

\* the for loop over SPECIAL_REPLACEMENTS.items()
RECURSIVE ApplyReplacements(_, _)
ApplyReplacements(value, i) ==
    IF i > Len(SPECIAL_REPLACEMENTS) THEN value
    ELSE ApplyReplacements(
            StrReplace(value, SPECIAL_REPLACEMENTS[i].find, SPECIAL_REPLACEMENTS[i].replace),
            i + 1)

\* a variant that skips the option-marker test
validate_value_keeps_marker(value, empty_parameters_flag) ==
    IF value = <<>>
    THEN IF empty_parameters_flag = 1 THEN PyStr(DASH) ELSE PyFalse
    ELSE LET cleaned == ApplyReplacements(value, 1)
         IN  IF Contains(cleaned, CVT) THEN PyStr(VARIATOR) ELSE PyStr(cleaned)

validate_value(value, empty_parameters_flag) ==
    IF \E i \in 1..Len(value) : value[i] = CIRCLE
    THEN PyStr(OPTION)
    ELSE IF value = <<>>
    THEN IF empty_parameters_flag = 1 THEN PyStr(DASH) ELSE PyFalse
    ELSE LET cleaned == ApplyReplacements(value, 1)
         IN  IF Contains(cleaned, CVT) THEN PyStr(VARIATOR) ELSE PyStr(cleaned)

-----------------------------------------------------------------------------
(* configuration_parser.get_validate_and_translate_value *)

\* the for loop over the value cells, from cell i on, with parameter_value = acc
RECURSIVE ValueLoop(_, _, _, _, _)
ValueLoop(divs, i, acc, empty_parameters_flag, vt) ==
    IF i > Len(divs) THEN PyStr(RStrip(acc, {",", " "}))
    ELSE LET validated_value == validate_value(divs[i], empty_parameters_flag)
         IN  IF ~Truthy(validated_value) THEN PyFalse
             ELSE IF validated_value = PyStr(OPTION)
             THEN ValueLoop(divs, i + 1, acc, empty_parameters_flag, vt)
             ELSE IF validated_value.s \in DOMAIN vt
             THEN ValueLoop(divs, i + 1, acc \o vt[validated_value.s] \o SEP,
                            empty_parameters_flag, vt)
             ELSE ValueLoop(divs, i + 1, acc \o validated_value.s \o SEP,
                            empty_parameters_flag, vt)

get_validate_and_translate_value(divs, empty_parameters_flag, vt) ==
    IF divs = <<>> THEN PyFalse
    ELSE ValueLoop(divs, 1, <<>>, empty_parameters_flag, vt)

-----------------------------------------------------------------------------
(* configuration_parser.get_and_translate_parameter_name *)

\* the row has no label element (find_next returned None)
NoLabel == "<none>"

\* a variant that does not look at the enabled flag
get_and_translate_parameter_name_any_flag(parameter_label, nd) ==
    IF parameter_label # NoLabel /\ parameter_label \in DOMAIN nd
    THEN PyStr(nd[parameter_label][1])
    ELSE PyFalse

\* nd[label] is the JSON pair [display name, enabled flag]
get_and_translate_parameter_name(parameter_label, nd) ==
    IF parameter_label # NoLabel
       /\ parameter_label \in DOMAIN nd
       /\ nd[parameter_label][2] # 0
    THEN PyStr(nd[parameter_label][1])
    ELSE PyFalse

-----------------------------------------------------------------------------
(* configuration_parser.get_data: the body of the for loop *)

\* a variant that appends the row without testing its value
get_data_row_any_value(res, parameter_label, divs, nd, empty_parameters_flag, vt, idx) ==
    LET parameter_name == get_and_translate_parameter_name(parameter_label, nd)
    IN  IF ~Truthy(parameter_name) THEN res
        ELSE Append(res, [name  |-> parameter_name.s,
                          value |-> get_validate_and_translate_value(
                                        divs, empty_parameters_flag, vt).s,
                          src   |-> idx])

\* res is result before the row, idx the row's position in the page; the
\* field src of an entry is bookkeeping (the row the entry comes from)
get_data_row(res, parameter_label, divs, nd, empty_parameters_flag, vt, idx) ==
    LET parameter_name == get_and_translate_parameter_name(parameter_label, nd)
    IN  IF ~Truthy(parameter_name) THEN res
        ELSE LET parameter_value == get_validate_and_translate_value(
                                        divs, empty_parameters_flag, vt)
             IN  IF ~Truthy(parameter_value) THEN res
                 ELSE Append(res, [name  |-> parameter_name.s,
                                   value |-> parameter_value.s,
                                   src   |-> idx])

-----------------------------------------------------------------------------
(* pdf_creator: page geometry *)

\* DEFAULT_PAGE_SIZE = A4 = (595.2756, 841.8898) points, in whole points.
\* Every length the writer adds or subtracts here is a whole number, so the
\* comparisons of _draw_text_block come out as with the exact height.
PageWidth  == 595
PageHeight == 841

DEFAULT_MARGIN        == 50
DEFAULT_LINE_SPACING  == 15
DEFAULT_IMAGE_SPACING == 10
TitleExtraSpacing     == 2      \* draw_car_info: line_spacing + 2 for the title
SaveThreshold         == 10     \* save: y_cursor < height - 10

\* PDFWriter.__init__: the cursor of a new writer
TopOfPage == PageHeight - DEFAULT_MARGIN

\* the state of a writer that was just constructed
PdfFresh ==
    /\ y_cursor = TopOfPage
    /\ pages = 0
    /\ saved = 0
    /\ pdf_pc = "idle"
    /\ items_left = 0
    /\ calls = 0
    /\ last_lines = <<>>
    /\ last_images = <<>>

-----------------------------------------------------------------------------
(* PDFWriter._draw_text_block *)

\* a variant that breaks the page only once the cursor itself is below the margin
draw_text_line_late_break(st, line_spacing) ==
    LET brk == st.y < DEFAULT_MARGIN
        at  == IF brk THEN TopOfPage ELSE st.y
    IN  [ y     |-> at - line_spacing,
          pages |-> st.pages + (IF brk THEN 1 ELSE 0),
          ev    |-> [ ls |-> line_spacing, y0 |-> st.y,
                      adv |-> IF brk THEN 1 ELSE 0,
                      at |-> at, y1 |-> at - line_spacing,
                      page |-> st.pages + (IF brk THEN 1 ELSE 0) ] ]

\* one iteration of the loop over the wrapped lines; st = [y, pages].
\* ev records the line: cursor before it, showPage calls made for it,
\* where drawString put it, cursor after it.
draw_text_line(st, line_spacing) ==
    LET brk == st.y - line_spacing < DEFAULT_MARGIN
        at  == IF brk THEN TopOfPage ELSE st.y
    IN  [ y     |-> at - line_spacing,
          pages |-> st.pages + (IF brk THEN 1 ELSE 0),
          ev    |-> [ ls |-> line_spacing, y0 |-> st.y,
                      adv |-> IF brk THEN 1 ELSE 0,
                      at |-> at, y1 |-> at - line_spacing,
                      page |-> st.pages + (IF brk THEN 1 ELSE 0) ] ]

\* a variant whose loop body runs once before the lines are counted
RECURSIVE draw_text_block_do_while(_, _, _)
draw_text_block_do_while(st, n, line_spacing) ==
    LET r    == draw_text_line([y |-> st.y, pages |-> st.pages], line_spacing)
        next == [y |-> r.y, pages |-> r.pages, evs |-> Append(st.evs, r.ev)]
    IN  IF n <= 1 THEN next ELSE draw_text_block_do_while(next, n - 1, line_spacing)

\* the loop over n wrapped lines; st = [y, pages, evs]
RECURSIVE draw_text_block(_, _, _)
draw_text_block(st, n, line_spacing) ==
    IF n = 0 THEN st
    ELSE LET r == draw_text_line([y |-> st.y, pages |-> st.pages], line_spacing)
         IN  draw_text_block([y |-> r.y, pages |-> r.pages, evs |-> Append(st.evs, r.ev)],
                             n - 1, line_spacing)

-----------------------------------------------------------------------------
(* Files of the car_data directory *)

\* characters of file names, in code-point order
NameChars == << ".", "0", "1", "2", "3", "4", "5", "6", "7", "8", "9", "_",
                "a", "b", "e", "f", "g", "i", "j", "m", "n", "o", "p", "s", "w" >>
Ord(c) == CHOOSE k \in 1..Len(NameChars) : NameChars[k] = c

\* a < b for Python strings
RECURSIVE StrLess(_, _)
StrLess(a, b) ==
    IF b = <<>> THEN FALSE
    ELSE IF a = <<>> THEN TRUE
    ELSE IF Head(a) = Head(b) THEN StrLess(Tail(a), Tail(b))
    ELSE Ord(Head(a)) < Ord(Head(b))

\* str(i) for i >= 0
DigitChars == << "0", "1", "2", "3", "4", "5", "6", "7", "8", "9" >>
RECURSIVE IntToStr(_)
IntToStr(i) ==
    IF i < 10 THEN << DigitChars[i + 1] >>
    ELSE IntToStr(i \div 10) \o << DigitChars[(i % 10) + 1] >>

EXT_WEBP == <<"w", "e", "b", "p">>
EXT_JPG  == <<"j", "p", "g">>
EXT_BIN  == <<"b", "i", "n">>       \* stands for any other URL suffix
Exts     == { EXT_WEBP, EXT_JPG, EXT_BIN }

\* download_images: f'image_{i}.{ext}'
ImageFileName(i, ext) ==
    <<"i", "m", "a", "g", "e", "_">> \o IntToStr(i) \o <<".">> \o ext

\* _prepare_storage_and_save: 'info.json'
InfoFile ==
    [ name |-> <<"i", "n", "f", "o", ".", "j", "s", "o", "n">>, i |-> 0,
      readable |-> FALSE, w |-> 0, h |-> 0 ]

\* the file written for URL number i; readable, w, h are what Image.open
\* will find in it
ImageFile(i, ext, kind) ==
    [ name |-> ImageFileName(i, ext), i |-> i,
      readable |-> kind.readable, w |-> kind.w, h |-> kind.h ]

NoDir == [ exists |-> FALSE, files |-> {} ]

\* sorted(os.listdir(images_dir)): the files in ascending order of name
RECURSIVE SortedListing(_)
SortedListing(files) ==
    IF files = {} THEN <<>>
    ELSE LET first == CHOOSE f \in files :
                         \A g \in files \ {f} : StrLess(f.name, g.name)
         IN  <<first>> \o SortedListing(files \ {first})

\* s.endswith(suffix)
EndsWith(s, suffix) ==
    Len(s) >= Len(suffix) /\ SubSeq(s, Len(s) - Len(suffix) + 1, Len(s)) = suffix

\* fname.lower().endswith(('.jpg', '.jpeg', '.png', '.webp'))
HasImageSuffix(name) ==
    \/ EndsWith(name, <<".", "j", "p", "g">>)
    \/ EndsWith(name, <<".", "j", "p", "e", "g">>)
    \/ EndsWith(name, <<".", "p", "n", "g">>)
    \/ EndsWith(name, <<".", "w", "e", "b", "p">>)

-----------------------------------------------------------------------------
(* PDFWriter.draw_images_from_dir *)

\* a variant that starts a page for a file it then fails to read
draw_image_page_for_unreadable(st, f) ==
    IF ~HasImageSuffix(f.name)
    THEN [ y |-> st.y, pages |-> st.pages, evs |-> <<>> ]
    ELSE IF ~f.readable \/ f.h = 0 \/ f.w = 0
    THEN [ y |-> TopOfPage, pages |-> st.pages + 1, evs |-> <<>> ]
    ELSE LET draw_height == (PageWidth * f.h) \div f.w
             brk == 2 * (st.y - draw_height) < 3 * DEFAULT_MARGIN
             top == IF brk THEN TopOfPage ELSE st.y
         IN  [ y     |-> top - draw_height - DEFAULT_IMAGE_SPACING,
               pages |-> st.pages + (IF brk THEN 1 ELSE 0),
               evs   |-> << [ i |-> f.i, w |-> f.w, h |-> f.h, y0 |-> st.y,
                              dh |-> draw_height, adv |-> IF brk THEN 1 ELSE 0,
                              bottom |-> top - draw_height,
                              y1 |-> top - draw_height - DEFAULT_IMAGE_SPACING,
                              page |-> st.pages + (IF brk THEN 1 ELSE 0) ] >> ]

\* a variant that leaves no gap after an image
draw_image_no_spacing(st, f) ==
    IF ~HasImageSuffix(f.name) \/ ~f.readable \/ f.h = 0 \/ f.w = 0
    THEN [ y |-> st.y, pages |-> st.pages, evs |-> <<>> ]
    ELSE LET draw_height == (PageWidth * f.h) \div f.w
             brk == 2 * (st.y - draw_height) < 3 * DEFAULT_MARGIN
             top == IF brk THEN TopOfPage ELSE st.y
         IN  [ y     |-> top - draw_height,
               pages |-> st.pages + (IF brk THEN 1 ELSE 0),
               evs   |-> << [ i |-> f.i, w |-> f.w, h |-> f.h, y0 |-> st.y,
                              dh |-> draw_height, adv |-> IF brk THEN 1 ELSE 0,
                              bottom |-> top - draw_height,
                              y1 |-> top - draw_height,
                              page |-> st.pages + (IF brk THEN 1 ELSE 0) ] >> ]

\* one iteration of the loop over the files; st = [y, pages].  A file without
\* an image suffix is skipped; Image.open raises for an unreadable file and
\* w / h or self.width / aspect raises ZeroDivisionError for a zero size, and
\* the except clause goes on with the next file.  The sizes used divide
\* exactly, so draw_height is the exact width / (w / h).
\* y_cursor - draw_height < margin * 1.5 is compared doubled.
draw_image(st, f) ==
    IF ~HasImageSuffix(f.name) \/ ~f.readable \/ f.h = 0 \/ f.w = 0
    THEN [ y |-> st.y, pages |-> st.pages, evs |-> <<>> ]
    ELSE LET draw_height == (PageWidth * f.h) \div f.w
             brk == 2 * (st.y - draw_height) < 3 * DEFAULT_MARGIN
             top == IF brk THEN TopOfPage ELSE st.y
         IN  [ y     |-> top - draw_height - DEFAULT_IMAGE_SPACING,
               pages |-> st.pages + (IF brk THEN 1 ELSE 0),
               evs   |-> << [ i |-> f.i, w |-> f.w, h |-> f.h, y0 |-> st.y,
                              dh |-> draw_height, adv |-> IF brk THEN 1 ELSE 0,
                              bottom |-> top - draw_height,
                              y1 |-> top - draw_height - DEFAULT_IMAGE_SPACING,
                              page |-> st.pages + (IF brk THEN 1 ELSE 0) ] >> ]

\* the loop over the listing; st = [y, pages, evs]
RECURSIVE draw_images_loop(_, _)
draw_images_loop(st, listing) ==
    IF listing = <<>> THEN st
    ELSE LET r == draw_image([y |-> st.y, pages |-> st.pages], Head(listing))
         IN  draw_images_loop([y |-> r.y, pages |-> r.pages, evs |-> st.evs \o r.evs],
                              Tail(listing))

-----------------------------------------------------------------------------
(* Inputs *)

\* texts a value cell can hold
RawTexts ==
    { <<>>, <<CIRCLE>>, <<TU, SHI>>, <<"A">>, <<"B">>, <<"A", ",">>,
      CVT, <<"8", MA, LI>> }

RECURSIVE SeqsUpTo(_, _)
SeqsUpTo(S, n) ==
    IF n = 0 THEN { <<>> }
    ELSE LET shorter == SeqsUpTo(S, n - 1)
         IN  shorter \cup { Append(q, x) : q \in { t \in shorter : Len(t) = n - 1 }, x \in S }

\* contents of values_translation
VT_none     == [k \in {} |-> <<>>]
VT_plain    == (<<"A">> :> <<"X">>)
VT_cvt      == (CVT :> <<"X">>)
VT_variator == (VARIATOR :> <<"X">>)
VT_odd      == (<<"A">> :> <<"X", " ">>) @@ (<<"B">> :> <<>>)
ValueLookups == { VT_none, VT_plain, VT_cvt, VT_variator, VT_odd }

-----------------------------------------------------------------------------
(* SpecValue: get_validate_and_translate_value applied to drawn inputs *)

DataIdle ==
    /\ data_pc = "idle" /\ n_rows = 0 /\ row_no = 0 /\ seen = <<>> /\ result = <<>>

\* no create_pdf call, no direct text block, no _extract_images call, no
\* mileage block is part of the run
RenderUnused ==
    /\ render_pc = "unused" /\ render_flag = FALSE
    /\ text_pages = {} /\ image_pages = {} /\ text_end = [y |-> 0, pages |-> 0]

BlockUnused == block_text = <<>> /\ block_before = [y |-> 0, pages |-> 0, call |-> -1]

ExtractUnused == page_srcs = <<>> /\ images = <<>> /\ extract_pc = "unused"

MileageUnused == mileage_e5 = 0 /\ mileage_line = <<>> /\ mileage_pc = "unused"

\* the window of main_app right after CarParserApp.__init__
AppFresh ==
    /\ button = "normal" /\ queue = <<>> /\ worker_pc = "idle"
    /\ scalar_field = "none" /\ scalar_text = <<>>
    /\ record_saved = FALSE /\ images_downloaded = FALSE /\ pdf_saved = FALSE
    /\ run_msgs = <<>> /\ shown = "none"
    /\ workers = 0 /\ ending = 0

\* the lookup files hold what the run's configuration was loaded from
LookupFilesAsLoaded ==
    /\ lookup_files = [names |-> names_dict, config |-> with_empty_parameters]
    /\ lookup_edits = [names |-> names_dict, config |-> with_empty_parameters, row |-> 0]
    /\ lookup_start = lookup_files

\* no settings window has been built
SettingsUnused ==
    /\ parameters_dict = [l \in {} |-> <<>>]
    /\ parameter_vars = [l \in {} |-> 0]
    /\ empty_parameters_var = 0
    /\ parameters_loaded = [l \in {} |-> <<>>]

PagesUnused ==
    RenderUnused /\ BlockUnused /\ ExtractUnused /\ MileageUnused /\ AppFresh /\ SettingsUnused

InitValue ==
    /\ cells \in SeqsUpTo(RawTexts, MaxCells)
    /\ with_empty_parameters \in {0, 1}
    /\ values_translation \in ValueLookups
    /\ names_dict = [l \in {} |-> <<>>]
    /\ value_pc = "ready"
    /\ value_out = PyFalse
    /\ DataIdle
    /\ PdfFresh
    /\ car_dir = NoDir
    /\ PagesUnused
    /\ LookupFilesAsLoaded

ApplyValue ==
    /\ value_pc = "ready"
    /\ value_out' = get_validate_and_translate_value(
                        cells, with_empty_parameters, values_translation)
    /\ value_pc' = "done"
    /\ UNCHANGED <<cells, cfgVars, dataVars, pdfVars, renderVars, outVars>>

NextValue == ApplyValue

SpecValue == InitValue /\ [][NextValue]_vars

-----------------------------------------------------------------------------
(* SpecData: passes of get_data over drawn rows *)

\* contents of test_names_translation.json
ND_a == ("L1" :> << <<"N", "1">>, 1 >>) @@ ("L2" :> << <<"N", "2">>, 0 >>)
        @@ ("L3" :> << <<>>, 1 >>)
ND_b == ("L1" :> << <<"N", "1">>, 0 >>) @@ ("L2" :> << <<"N", "2">>, 1 >>)
        @@ ("L3" :> << <<"N", "3">>, 1 >>)
NamesDicts == { ND_a, ND_b }

\* labels a row can carry: three of the dictionary, an unknown one, none
RowLabels == { "L1", "L2", "L3", "L4", NoLabel }

\* value cells a row can carry
RowCells ==
    { <<>>, << <<>> >>, << <<"A">> >>, << <<"B">> >>, << <<CIRCLE>> >>,
      << <<"A">>, <<"B">> >> }

DataLookups == { VT_none, VT_odd }

InitData ==
    /\ cells = <<>>
    /\ value_pc = "unused"
    /\ value_out = PyFalse
    /\ with_empty_parameters \in {0, 1}
    /\ values_translation \in DataLookups
    /\ names_dict \in NamesDicts
    /\ DataIdle
    /\ PdfFresh
    /\ car_dir = NoDir
    /\ PagesUnused
    /\ LookupFilesAsLoaded

\* get_data up to the for loop: the files are loaded, result = [], the rows
\* of the page are fetched
GetDataStart ==
    /\ data_pc \in {"idle", "done"}
    /\ n_rows' \in 0..MaxRows
    /\ row_no' = 0
    /\ seen' = <<>>
    /\ result' = <<>>
    /\ data_pc' = "rows"
    /\ with_empty_parameters' = lookup_files.config
    /\ names_dict' = lookup_files.names
    /\ lookup_start' = lookup_files
    /\ UNCHANGED <<values_translation, lookup_files, lookup_edits, valueVars, pdfVars,
                   renderVars, blockVars, extractVars, mileageVars, appVars, settingsVars>>

\* a variant that opens the lookup files again for every row
GetDataRow_reads_files ==
    /\ data_pc = "rows"
    /\ row_no < n_rows
    /\ \E parameter_label \in RowLabels, divs \in RowCells :
          /\ result' = get_data_row(result, parameter_label, divs, lookup_files.names,
                                    lookup_files.config, values_translation,
                                    row_no + 1)
          /\ seen' = Append(seen, parameter_label)
    /\ row_no' = row_no + 1
    /\ UNCHANGED <<data_pc, n_rows, valueVars, cfgVars, pdfVars, renderVars, outVars>>

\* one iteration of the for loop
GetDataRow ==
    /\ data_pc = "rows"
    /\ row_no < n_rows
    /\ \E parameter_label \in RowLabels, divs \in RowCells :
          /\ result' = get_data_row(result, parameter_label, divs, names_dict,
                                    with_empty_parameters, values_translation,
                                    row_no + 1)
          /\ seen' = Append(seen, parameter_label)
    /\ row_no' = row_no + 1
    /\ UNCHANGED <<data_pc, n_rows, valueVars, cfgVars, pdfVars, renderVars, outVars>>

\* the loop is over: result is dumped and returned
GetDataFinish ==
    /\ data_pc = "rows"
    /\ row_no = n_rows
    /\ data_pc' = "done"
    /\ UNCHANGED <<n_rows, row_no, seen, result, valueVars, cfgVars, pdfVars, renderVars, outVars>>

NextData == GetDataStart \/ GetDataRow \/ GetDataFinish

SpecData == InitData /\ [][NextData]_vars

-----------------------------------------------------------------------------
(* SpecSnapshot: passes of get_data while the settings window rewrites the
   lookup files *)

\* _on_parameter_change, _on_empty_parameters_change: the new content is
\* written to test_names_translation.json and config.json
EditLookupFiles ==
    \E names \in NamesDicts, config \in {0, 1} :
       /\ lookup_files' = [names |-> names, config |-> config]
       /\ lookup_files' # lookup_files
       /\ lookup_edits' = [names |-> names, config |-> config, row |-> row_no]
       /\ UNCHANGED <<lookup_start, valueVars, cfgVars, dataVars, pdfVars, renderVars,
                      blockVars, extractVars, mileageVars, appVars, settingsVars>>

InitSnapshot ==
    /\ InitData
    /\ values_translation = VT_none

NextSnapshot == NextData \/ EditLookupFiles

SpecSnapshot == InitSnapshot /\ [][NextSnapshot]_vars

-----------------------------------------------------------------------------
(* Actions of one PDFWriter *)

NormalizerUnused ==
    /\ cells = <<>>
    /\ value_pc = "unused"
    /\ value_out = PyFalse
    /\ with_empty_parameters = 0
    /\ values_translation = VT_none
    /\ names_dict = [l \in {} |-> <<>>]
    /\ DataIdle

\* draw_car_info up to its for loop, st being the writer after the blocks
\* drawn before the loop and n = len(config_items)
EnterItems(st, n) ==
    /\ pdf_pc = "idle"
    /\ calls < MaxCalls
    /\ y_cursor' = st.y
    /\ pages' = st.pages
    /\ last_lines' = st.evs
    /\ items_left' = n
    /\ pdf_pc' = IF n > 0 THEN "items" ELSE "idle"
    /\ calls' = calls + 1
    /\ last_images' = <<>>
    /\ UNCHANGED <<car_dir, saved, valueVars, cfgVars, dataVars, outVars>>

\* draw_car_info(True, car_data): the title block (t wrapped lines, none for
\* an empty title) and the mileage block (m wrapped lines) come first
DrawCarInfoMainUpTo(max_items) ==
    \E t \in 0..MaxLines, m \in 1..MaxLines, n \in 0..max_items :
       EnterItems(
           draw_text_block(
               draw_text_block([y |-> y_cursor, pages |-> pages, evs |-> <<>>], t,
                               DEFAULT_LINE_SPACING + TitleExtraSpacing),
               m, DEFAULT_LINE_SPACING),
           n)

DrawCarInfoMain == DrawCarInfoMainUpTo(MaxItems)

\* draw_car_info(False, car_data): car_data is the list of items
DrawCarInfoListUpTo(max_items) ==
    \E n \in 0..max_items :
       EnterItems([y |-> y_cursor, pages |-> pages, evs |-> <<>>], n)

DrawCarInfoList == DrawCarInfoListUpTo(MaxItems)

\* one iteration of draw_car_info's for loop: the block "name: value",
\* which wraps into k >= 1 lines
DrawCarInfoItem ==
    /\ pdf_pc = "items"
    /\ \E k \in 1..MaxLines :
          LET st == draw_text_block([y |-> y_cursor, pages |-> pages, evs |-> <<>>],
                                    k, DEFAULT_LINE_SPACING)
          IN  /\ y_cursor' = st.y
              /\ pages' = st.pages
              /\ last_lines' = st.evs
    /\ items_left' = items_left - 1
    /\ pdf_pc' = IF items_left = 1 THEN "idle" ELSE "items"
    /\ UNCHANGED <<car_dir, saved, calls, last_images, valueVars, cfgVars, dataVars, outVars>>

\* a variant that goes on from where the text ended
DrawImagesFromDir_from_cursor ==
    /\ pdf_pc = "idle"
    /\ calls < MaxCalls
    /\ IF ~car_dir.exists
       THEN UNCHANGED <<y_cursor, pages>> /\ last_images' = <<>>
       ELSE LET st == draw_images_loop([y |-> y_cursor, pages |-> pages, evs |-> <<>>],
                                       SortedListing(car_dir.files))
            IN  /\ y_cursor' = st.y
                /\ pages' = st.pages
                /\ last_images' = st.evs
    /\ calls' = calls + 1
    /\ last_lines' = <<>>
    /\ UNCHANGED <<car_dir, saved, pdf_pc, items_left, valueVars, cfgVars, dataVars, outVars>>

\* draw_images_from_dir
DrawImagesFromDir ==
    /\ pdf_pc = "idle"
    /\ calls < MaxCalls
    /\ IF ~car_dir.exists
       THEN UNCHANGED <<y_cursor, pages>> /\ last_images' = <<>>
       ELSE LET st == draw_images_loop([y |-> -1, pages |-> pages, evs |-> <<>>],
                                       SortedListing(car_dir.files))
            IN  /\ y_cursor' = st.y
                /\ pages' = st.pages
                /\ last_images' = st.evs
    /\ calls' = calls + 1
    /\ last_lines' = <<>>
    /\ UNCHANGED <<car_dir, saved, pdf_pc, items_left, valueVars, cfgVars, dataVars, outVars>>

\* a variant that commits the page only if the cursor has left its start
Save_only_if_drawn ==
    /\ pdf_pc = "idle"
    /\ calls < MaxCalls
    /\ pages' = IF y_cursor < TopOfPage THEN pages + 1 ELSE pages
    /\ saved' = saved + 1
    /\ calls' = calls + 1
    /\ last_lines' = <<>>
    /\ UNCHANGED <<car_dir, y_cursor, pdf_pc, items_left, last_images,
                   valueVars, cfgVars, dataVars, outVars>>

\* save
Save ==
    /\ pdf_pc = "idle"
    /\ calls < MaxCalls
    /\ pages' = IF y_cursor < PageHeight - SaveThreshold THEN pages + 1 ELSE pages
    /\ saved' = saved + 1
    /\ calls' = calls + 1
    /\ last_lines' = <<>>
    /\ UNCHANGED <<car_dir, y_cursor, pdf_pc, items_left, last_images,
                   valueVars, cfgVars, dataVars, outVars>>

-----------------------------------------------------------------------------
(* SpecPdf: any sequence of writer methods over a drawn directory *)

\* what Image.open finds in a file
KindWide   == [readable |-> TRUE,  w |-> 1190, h |-> 594]   \* drawn 297 high
KindSquare == [readable |-> TRUE,  w |-> 800,  h |-> 800]   \* drawn 595 high
KindTall   == [readable |-> TRUE,  w |-> 595,  h |-> 717]   \* drawn 717 high
KindTower  == [readable |-> TRUE,  w |-> 600,  h |-> 1200]  \* drawn 1190 high
KindBroken == [readable |-> FALSE, w |-> 0,    h |-> 0]
KindZeroH  == [readable |-> TRUE,  w |-> 100,  h |-> 0]
KindZeroW  == [readable |-> TRUE,  w |-> 0,    h |-> 100]

\* the directory that holds info.json and one image file per entry of specs
DirOf(specs) ==
    [ exists |-> TRUE,
      files  |-> {InfoFile} \cup
                 { ImageFile(i, specs[i][1], specs[i][2]) : i \in 1..Len(specs) } ]

SampleDirs ==
    { NoDir,
      DirOf(<< <<EXT_WEBP, KindWide>>, <<EXT_JPG, KindBroken>>, <<EXT_WEBP, KindWide>>,
               <<EXT_JPG, KindSquare>> >>) }

InitPdf ==
    /\ NormalizerUnused
    /\ PdfFresh
    /\ car_dir \in SampleDirs
    /\ PagesUnused
    /\ LookupFilesAsLoaded

NextPdf ==
    /\ DrawCarInfoMain \/ DrawCarInfoList \/ DrawCarInfoItem \/ DrawImagesFromDir \/ Save
    /\ UNCHANGED renderVars

SpecPdf == InitPdf /\ [][NextPdf]_vars

-----------------------------------------------------------------------------
(* SpecGallery: the images of one listing are stored, then drawn *)

GalleryKinds == { KindWide, KindSquare, KindTall, KindTower, KindBroken, KindZeroH, KindZeroW }

\* parse_car_page, lines 94-97: _prepare_storage_and_save empties car_data and
\* writes info.json, download_images writes image_{i}.{ext} for URL number i
\* of n, except for the URL (failed, if not 0) whose request raised.  The
\* files at odd positions hold an image of kind k1, the others one of kind k2.
StoreAndDownload ==
    /\ calls = 0
    /\ ~car_dir.exists
    /\ \E n \in 0..MaxImages, failed \in 0..MaxImages, ext \in Exts,
          k1 \in GalleryKinds, k2 \in GalleryKinds :
          /\ failed <= n
          /\ car_dir' = [ exists |-> TRUE,
                          files  |-> {InfoFile} \cup
                                     { ImageFile(i, ext, IF i % 2 = 1 THEN k1 ELSE k2) :
                                          i \in (1..n) \ {failed} } ]
    /\ UNCHANGED <<y_cursor, pages, saved, pdf_pc, items_left, calls, last_lines,
                   last_images, valueVars, cfgVars, dataVars, outVars>>

InitGallery ==
    /\ NormalizerUnused
    /\ PdfFresh
    /\ car_dir = NoDir
    /\ PagesUnused
    /\ LookupFilesAsLoaded

NextGallery ==
    /\ StoreAndDownload \/ DrawImagesFromDir \/ Save
    /\ UNCHANGED renderVars

SpecGallery == InitGallery /\ [][NextGallery]_vars

-----------------------------------------------------------------------------
(* SpecBlock: direct calls of _draw_text_block between image passes *)

\* A text is the sequence of the widths of its words, in points.
\* stringWidth(' '): the width of a blank
SpaceWidth == 3

\* the loop of simpleSplit over the words: the words of each wrapped line.
\* A word goes on the open line if it fits after a blank or if
\* the line is empty; line is the open line, w its width.
RECURSIVE SplitWords(_, _, _, _)
SplitWords(words, line, w, max_width) ==
    IF words = <<>> THEN (IF line = <<>> THEN <<>> ELSE <<line>>)
    ELSE LET lt == Head(words)
         IN  IF line = <<>>
             THEN SplitWords(Tail(words), <<lt>>, lt, max_width)
             ELSE IF w + SpaceWidth + lt <= max_width
             THEN SplitWords(Tail(words), Append(line, lt), w + SpaceWidth + lt, max_width)
             ELSE <<line>> \o SplitWords(Tail(words), <<lt>>, lt, max_width)

\* simpleSplit(text, font_name, font_size, max_width)
simpleSplit(text, max_width) == SplitWords(text, <<>>, 0, max_width)

\* _draw_text_block(text, font_size, line_spacing), for a text of no, one,
\* two or three words and the two line spacings draw_car_info uses
DrawTextBlock ==
    /\ pdf_pc = "idle"
    /\ calls < MaxCalls
    /\ \E text \in { <<>>, <<100>>, <<300, 300>>, <<600>>, <<200, 200, 200>> },
          line_spacing \in { DEFAULT_LINE_SPACING,
                             DEFAULT_LINE_SPACING + TitleExtraSpacing } :
          LET lines == simpleSplit(text, PageWidth - 2 * DEFAULT_MARGIN)
              st    == draw_text_block([y |-> y_cursor, pages |-> pages, evs |-> <<>>],
                                       Len(lines), line_spacing)
          IN  /\ y_cursor' = st.y
              /\ pages' = st.pages
              /\ last_lines' = st.evs
              /\ block_text' = text
    /\ block_before' = [y |-> y_cursor, pages |-> pages, call |-> calls + 1]
    /\ calls' = calls + 1
    /\ UNCHANGED <<car_dir, saved, pdf_pc, items_left, last_images, valueVars, cfgVars,
                   dataVars, extractVars, fileVars, mileageVars, appVars, settingsVars>>

InitBlock ==
    /\ NormalizerUnused
    /\ PdfFresh
    /\ car_dir \in
          { NoDir,
            DirOf(<< <<EXT_JPG, KindTall>> >>),
            DirOf(<< <<EXT_WEBP, KindWide>>, <<EXT_JPG, KindBroken>>,
                     <<EXT_WEBP, KindWide>> >>) }
    /\ PagesUnused
    /\ LookupFilesAsLoaded

NextBlock ==
    /\ DrawTextBlock \/ DrawImagesFromDir
    /\ UNCHANGED renderVars

SpecBlock == InitBlock /\ [][NextBlock]_vars

-----------------------------------------------------------------------------
(* SpecRender: one call of create_pdf *)

\* create_pdf up to draw_car_info: the writer exists.  create_pdf is given
\* the listing record (a dict), a list of items, or nothing while json_path
\* cannot be read: with car_data None the record is loaded from json_path,
\* and create_pdf returns if that fails.  draw_car_info raises at once on
\* car_data of the other shape.
CreatePdfOpen ==
    /\ render_pc = "start"
    /\ \E main_app_flag \in BOOLEAN, shape \in { "record", "items", "unreadable" } :
          /\ render_flag' = main_app_flag
          /\ render_pc' = IF shape = "unreadable" THEN "returned"
                          ELSE IF main_app_flag = (shape = "record") THEN "text"
                          ELSE "raised"
    /\ UNCHANGED <<text_pages, image_pages, text_end, pdfVars,
                   valueVars, cfgVars, dataVars, outVars>>

\* the pages of the lines or images a step has drawn
PagesOf(evs) == { evs[k].page : k \in 1..Len(evs) }

\* draw_car_info has returned once its loop is over
AfterTextStep ==
    /\ text_pages' = text_pages \cup PagesOf(last_lines')
    /\ IF pdf_pc' = "idle"
       THEN /\ render_pc' = IF render_flag THEN "images" ELSE "save"
            /\ text_end' = [y |-> y_cursor', pages |-> pages']
       ELSE /\ render_pc' = "items"
            /\ UNCHANGED text_end
    /\ UNCHANGED <<render_flag, image_pages>>

\* writer.draw_car_info(main_app_flag, car_data) up to its loop
CreatePdfText ==
    /\ render_pc = "text"
    /\ IF render_flag THEN DrawCarInfoMainUpTo(MaxRenderItems)
                      ELSE DrawCarInfoListUpTo(MaxRenderItems)
    /\ AfterTextStep

\* one item of draw_car_info's loop
CreatePdfItem ==
    /\ render_pc = "items"
    /\ DrawCarInfoItem
    /\ AfterTextStep

\* if main_app_flag: writer.draw_images_from_dir("car_data")
CreatePdfImages ==
    /\ render_pc = "images"
    /\ DrawImagesFromDir
    /\ image_pages' = PagesOf(last_images')
    /\ render_pc' = "save"
    /\ UNCHANGED <<render_flag, text_pages, text_end>>

\* writer.save()
CreatePdfSave ==
    /\ render_pc = "save"
    /\ Save
    /\ render_pc' = "done"
    /\ UNCHANGED <<render_flag, text_pages, image_pages, text_end>>

InitRender ==
    /\ NormalizerUnused
    /\ PdfFresh
    /\ car_dir \in
          { NoDir,
            DirOf(<<>>),
            DirOf(<< <<EXT_WEBP, KindWide>>, <<EXT_JPG, KindBroken>>, <<EXT_WEBP, KindWide>>,
                     <<EXT_JPG, KindSquare>> >>),
            DirOf(<< <<EXT_JPG, KindBroken>>, <<EXT_JPG, KindZeroH>>, <<EXT_JPG, KindWide>>,
                     <<EXT_JPG, KindZeroW>>, <<EXT_JPG, KindTall>> >>),
            DirOf(<< <<EXT_BIN, KindWide>>, <<EXT_WEBP, KindBroken>> >>) }
    /\ render_pc = "start" /\ render_flag = FALSE
    /\ text_pages = {} /\ image_pages = {} /\ text_end = [y |-> 0, pages |-> 0]
    /\ BlockUnused /\ ExtractUnused /\ MileageUnused /\ AppFresh /\ SettingsUnused
    /\ LookupFilesAsLoaded

NextRender ==
    CreatePdfOpen \/ CreatePdfText \/ CreatePdfItem \/ CreatePdfImages \/ CreatePdfSave

SpecRender == InitRender /\ [][NextRender]_vars

-----------------------------------------------------------------------------
(* SpecExtract: _extract_images applied to the img sources of a page *)

SVG == <<"s", "v", "g">>

\* src of the img elements: a missing or empty src, an icon, a thumbnail and
\* the full-size image of photo a, a thumbnail of photo b, a jpg
PageSrcs ==
    { <<>>,
      <<"/", "/", "a", "/", "i", ".", "s", "v", "g">>,
      <<"/", "/", "a", "1", "2", "4", "x", "0", ".", "w", "e", "b", "p">>,
      <<"h", "t", "t", "p", "s", ":", "/", "/", "a", "1", "8", "5", "0", "x", "0", ".", "w", "e", "b", "p">>,
      <<"/", "/", "b", "1", "2", "4", "x", "0", ".", "w", "e", "b", "p">>,
      <<"/", "/", "a", "/", "p", ".", "j", "p", "g">> }

\* x in seq
InList(x, seq) == \E k \in 1..Len(seq) : seq[k] = x

\* 'https:' + src.replace('124x0', '1850x0') for a webp source that does not
\* start with https
rewrite_src(src) ==
    IF EndsWith(src, EXT_WEBP) /\ ~StartsWith(src, <<"h", "t", "t", "p", "s">>)
    THEN <<"h", "t", "t", "p", "s", ":">>
            \o StrReplace(src, <<"1", "2", "4", "x", "0">>, <<"1", "8", "5", "0", "x", "0">>)
    ELSE src

\* a variant that looks the source up in the list before it is rewritten
extract_image_raw_lookup(imgs, src) ==
    IF src = <<>> \/ Contains(src, SVG) THEN imgs
    ELSE IF InList(src, imgs) THEN imgs
    ELSE Append(imgs, rewrite_src(src))

\* one iteration of the loop over the img elements
extract_image(imgs, src) ==
    IF src = <<>> \/ Contains(src, SVG) THEN imgs
    ELSE LET url == rewrite_src(src)
         IN  IF InList(url, imgs) THEN imgs ELSE Append(imgs, url)

RECURSIVE extract_images_loop(_, _)
extract_images_loop(imgs, srcs) ==
    IF srcs = <<>> THEN imgs
    ELSE extract_images_loop(extract_image(imgs, Head(srcs)), Tail(srcs))

InitExtract ==
    /\ NormalizerUnused
    /\ PdfFresh
    /\ car_dir = NoDir
    /\ RenderUnused /\ BlockUnused /\ MileageUnused /\ AppFresh /\ SettingsUnused
    /\ LookupFilesAsLoaded
    /\ page_srcs \in SeqsUpTo(PageSrcs, MaxSrcs)
    /\ images = <<>>
    /\ extract_pc = "ready"

ExtractImages ==
    /\ extract_pc = "ready"
    /\ images' = extract_images_loop(<<>>, page_srcs)
    /\ extract_pc' = "done"
    /\ UNCHANGED <<page_srcs, valueVars, cfgVars, dataVars, pdfVars, renderVars,
                   blockVars, fileVars, mileageVars, appVars, settingsVars>>

SpecExtract == InitExtract /\ [][ExtractImages]_vars

-----------------------------------------------------------------------------
(* SpecMileage: the mileage block of draw_car_info *)

\* 'Пробег: ' and ' км'
MILEAGE_LABEL == <<"<Pe>", "<er>", "<o>", "<be>", "<ie>", "<ghe>", ":", " ">>
KM_SUFFIX     == <<" ", "<ka>", "<em>">>

\* int(x) for x = a / b with b > 0: the fraction is cut off toward zero
IntOfQuotient(a, b) == IF a >= 0 THEN a \div b ELSE -((-a) \div b)

\* the digits of a number with ',' before every group of three from the right
RECURSIVE GroupThousands(_)
GroupThousands(digits) ==
    IF Len(digits) <= 3 THEN digits
    ELSE GroupThousands(SubSeq(digits, 1, Len(digits) - 3))
            \o <<",">> \o SubSeq(digits, Len(digits) - 2, Len(digits))

\* a variant of the format without the ',' option
FormatWithCommas_plain(n) ==
    IF n < 0 THEN <<"-">> \o IntToStr(-n) ELSE IntToStr(n)

\* f"{n:,}"
FormatWithCommas(n) ==
    IF n < 0 THEN <<"-">> \o GroupThousands(IntToStr(-n))
    ELSE GroupThousands(IntToStr(n))

\* f"Пробег: {int(mileage * 10000):,} км", mileage being e5 / 100000
mileage_text(e5) ==
    MILEAGE_LABEL \o FormatWithCommas(IntOfQuotient(e5, 10)) \o KM_SUFFIX

\* the mileage is 0, 0.00005, 0.00015, 1.23, 9.9999, 10, 123.45678, one of
\* two negative values, or a multiple of MileageStep
InitMileage ==
    /\ NormalizerUnused
    /\ PdfFresh
    /\ car_dir = NoDir
    /\ RenderUnused /\ BlockUnused /\ ExtractUnused /\ AppFresh /\ SettingsUnused
    /\ LookupFilesAsLoaded
    /\ mileage_e5 \in { 0, 5, 15, 123000, 999990, 1000000, 12345678, -15, -123009 }
                        \cup { k * MileageStep : k \in 0..MaxMileageSteps }
    /\ mileage_line = <<>>
    /\ mileage_pc = "ready"

\* draw_car_info: the text of the mileage block is built
BuildMileageLine ==
    /\ mileage_pc = "ready"
    /\ mileage_line' = mileage_text(mileage_e5)
    /\ mileage_pc' = "done"
    /\ UNCHANGED <<mileage_e5, valueVars, cfgVars, dataVars, pdfVars, renderVars,
                   blockVars, extractVars, fileVars, appVars, settingsVars>>

SpecMileage == InitMileage /\ [][BuildMileageLine]_vars

-----------------------------------------------------------------------------
(* SpecApp: the window of main_app, its worker thread and its queue *)

\* constants.SPECIAL_CHARS_TO_NUMBERS; a glyph is written by its code point
SPECIAL_CHARS_TO_NUMBERS ==
    ("<e53d>" :> <<"1">>) @@ ("<e3f0>" :> <<"2">>) @@ ("<e422>" :> <<"3">>)
    @@ ("<e42c>" :> <<"4">>) @@ ("<e49c>" :> <<"5">>) @@ ("<e42b>" :> <<"6">>)
    @@ ("<e4fe>" :> <<"7">>) @@ ("<e548>" :> <<"8">>) @@ ("<e4c8>" :> <<"9">>)
    @@ ("<e453>" :> <<"0">>) @@ ("<e45f>" :> <<>>) @@ ("<e531>" :> <<>>)
    @@ ("<e4fc>" :> <<>>)

\* characters of a price or mileage text: two glyphs of the table, the
\* decimal point, an ASCII digit, and U+4E07 as it is written outside the
\* glyph font
ScalarTexts == SeqsUpTo({ "<e53d>", "<e45f>", ".", "7", "<wan>" }, MaxScalarChars)

\* a variant that drops the characters the table does not hold
RECURSIVE clean_text_drops_unknown(_)
clean_text_drops_unknown(text) ==
    IF text = <<>> THEN <<>>
    ELSE (IF Head(text) \in DOMAIN SPECIAL_CHARS_TO_NUMBERS
          THEN SPECIAL_CHARS_TO_NUMBERS[Head(text)]
          ELSE <<>>) \o clean_text_drops_unknown(Tail(text))

\* ''.join(SPECIAL_CHARS_TO_NUMBERS.get(c, c) for c in text)
RECURSIVE clean_text(_)
clean_text(text) ==
    IF text = <<>> THEN <<>>
    ELSE (IF Head(text) \in DOMAIN SPECIAL_CHARS_TO_NUMBERS
          THEN SPECIAL_CHARS_TO_NUMBERS[Head(text)]
          ELSE <<Head(text)>>) \o clean_text(Tail(text))

\* float(s) returns for s made of the characters above: digits with at most
\* one decimal point and at least one digit; else it raises ValueError
FloatAccepts(s) ==
    /\ \A k \in 1..Len(s) : s[k] = "." \/ InList(s[k], DigitChars)
    /\ Cardinality({ k \in 1..Len(s) : s[k] = "." }) <= 1
    /\ \E k \in 1..Len(s) : InList(s[k], DigitChars)

\* _text_to_float: ok is FALSE if float raised, num is the numeral converted
text_to_float(text) ==
    LET clean == clean_text(text)
    IN  [ ok |-> FloatAccepts(clean), num |-> clean ]

\* queue.put((action, data)); the kind stands for the action and its text
Put(kind) ==
    /\ queue' = Append(queue, kind)
    /\ run_msgs' = Append(run_msgs, kind)

\* a variant of _start_parsing that starts the worker and leaves the button
\* enabled
StartParsing_no_lock ==
    /\ button = "normal"
    /\ ending < MaxEnding
    /\ shown' = "started"
    /\ worker_pc' = "load"
    /\ workers' = workers + 1
    /\ scalar_field' = "none" /\ scalar_text' = <<>>
    /\ record_saved' = FALSE /\ images_downloaded' = FALSE /\ pdf_saved' = FALSE
    /\ run_msgs' = <<>>
    /\ UNCHANGED <<button, queue, ending, valueVars, cfgVars, dataVars, pdfVars, renderVars,
                   blockVars, extractVars, fileVars, mileageVars, settingsVars>>

\* _start_parsing with a URL: the window is locked and the worker started
StartParsing ==
    /\ button = "normal"
    /\ ending < MaxEnding
    /\ button' = "disabled"
    /\ shown' = "started"
    /\ worker_pc' = "load"
    /\ workers' = workers + 1
    /\ scalar_field' = "none" /\ scalar_text' = <<>>
    /\ record_saved' = FALSE /\ images_downloaded' = FALSE /\ pdf_saved' = FALSE
    /\ run_msgs' = <<>>
    /\ UNCHANGED <<queue, ending, valueVars, cfgVars, dataVars, pdfVars, renderVars,
                   blockVars, extractVars, fileVars, mileageVars, settingsVars>>

\* _start_parsing with an empty URL
StartParsingNoUrl ==
    /\ button = "normal"
    /\ shown' = "hint"
    /\ UNCHANGED <<button, queue, worker_pc, scalar_field, scalar_text, record_saved,
                   images_downloaded, pdf_saved, run_msgs, workers, ending,
                   valueVars, cfgVars, dataVars, pdfVars, renderVars,
                   blockVars, extractVars, fileVars, mileageVars, settingsVars>>

\* what a step of the worker leaves alone besides the fields named
WorkerFrame ==
    UNCHANGED <<button, shown, valueVars, cfgVars, dataVars, pdfVars, renderVars,
                blockVars, extractVars, fileVars, mileageVars, settingsVars>>

\* a step that raised: the worker goes to its except branch
Raise ==
    /\ worker_pc' = "except"
    /\ UNCHANGED <<queue, run_msgs>>

\* parse_car_page: the page is loaded and the title extracted, or one of the
\* two raises
WorkerLoad ==
    /\ worker_pc = "load"
    /\ \/ Put("log") /\ worker_pc' = "price"
       \/ Raise
    /\ UNCHANGED <<scalar_field, scalar_text, record_saved, images_downloaded, pdf_saved>>
    /\ UNCHANGED <<workers, ending>>
    /\ WorkerFrame

\* _extract_price, _extract_mileage
WorkerScalar(field, next_pc) ==
    /\ worker_pc = field
    /\ \E text \in ScalarTexts :
          /\ scalar_field' = field
          /\ scalar_text' = text
          /\ IF text_to_float(text).ok
             THEN Put("log") /\ worker_pc' = next_pc
             ELSE Raise
    /\ UNCHANGED <<record_saved, images_downloaded, pdf_saved>>
    /\ UNCHANGED <<workers, ending>>
    /\ WorkerFrame

WorkerPrice == WorkerScalar("price", "mileage")

WorkerMileage == WorkerScalar("mileage", "gather")

\* _scroll_images, _extract_images, _get_configuration_info
WorkerGather ==
    /\ worker_pc = "gather"
    /\ \/ Put("log") /\ worker_pc' = "store"
       \/ Raise
    /\ UNCHANGED <<scalar_field, scalar_text, record_saved, images_downloaded, pdf_saved>>
    /\ UNCHANGED <<workers, ending>>
    /\ WorkerFrame

\* _prepare_storage_and_save
WorkerStore ==
    /\ worker_pc = "store"
    /\ record_saved' = TRUE
    /\ Put("log")
    /\ worker_pc' = "download"
    /\ UNCHANGED <<scalar_field, scalar_text, images_downloaded, pdf_saved>>
    /\ UNCHANGED <<workers, ending>>
    /\ WorkerFrame

\* download_images, then "Parsing completed"
WorkerDownload ==
    /\ worker_pc = "download"
    /\ images_downloaded' = TRUE
    /\ Put("log")
    /\ worker_pc' = "pdf"
    /\ UNCHANGED <<scalar_field, scalar_text, record_saved, pdf_saved>>
    /\ UNCHANGED <<workers, ending>>
    /\ WorkerFrame

\* create_pdf(main_app_flag=True) and the message after it: create_pdf
\* returns after writer.save(), returns without it if info.json cannot be
\* read, or raises
WorkerCreatePdf ==
    /\ worker_pc = "pdf"
    /\ \/ pdf_saved' = TRUE /\ Put("pdf_created") /\ worker_pc' = "finally"
       \/ pdf_saved' = FALSE /\ Put("pdf_created") /\ worker_pc' = "finally"
       \/ pdf_saved' = FALSE /\ Raise
    /\ UNCHANGED <<scalar_field, scalar_text, record_saved, images_downloaded>>
    /\ UNCHANGED <<workers, ending>>
    /\ WorkerFrame

\* a variant of the handler that leaves without passing the finally clause
WorkerExcept_no_finally ==
    /\ worker_pc = "except"
    /\ Put("error")
    /\ worker_pc' = "idle"
    /\ UNCHANGED <<scalar_field, scalar_text, record_saved, images_downloaded, pdf_saved>>
    /\ UNCHANGED <<workers, ending>>
    /\ WorkerFrame

\* except Exception: the error message is put, the exception raised again
WorkerExcept ==
    /\ worker_pc = "except"
    /\ Put("error")
    /\ worker_pc' = "finally"
    /\ UNCHANGED <<scalar_field, scalar_text, record_saved, images_downloaded, pdf_saved>>
    /\ UNCHANGED <<workers, ending>>
    /\ WorkerFrame

\* finally: ("finish", None) is put; what is left of the thread is the way
\* out of _parse_worker (the raise of line 98 on the error path) and of
\* Thread.run
WorkerFinally ==
    /\ worker_pc = "finally"
    /\ Put("finish")
    /\ worker_pc' = "idle"
    /\ workers' = workers - 1
    /\ ending' = ending + 1
    /\ UNCHANGED <<scalar_field, scalar_text, record_saved, images_downloaded, pdf_saved>>
    /\ WorkerFrame

\* a thread that has left _parse_worker ends
WorkerEnd ==
    /\ ending > 0
    /\ ending' = ending - 1
    /\ UNCHANGED <<button, queue, worker_pc, scalar_field, scalar_text, record_saved,
                   images_downloaded, pdf_saved, run_msgs, shown, workers,
                   valueVars, cfgVars, dataVars, pdfVars, renderVars,
                   blockVars, extractVars, fileVars, mileageVars, settingsVars>>

WorkerStep ==
    \/ WorkerLoad \/ WorkerPrice \/ WorkerMileage \/ WorkerGather \/ WorkerStore
    \/ WorkerDownload \/ WorkerCreatePdf \/ WorkerExcept \/ WorkerFinally
    \/ WorkerEnd

\* _process_queue: one message is taken; "finish" unlocks the window, any
\* other message is appended to result_text
ProcessQueue ==
    /\ queue # <<>>
    /\ queue' = Tail(queue)
    /\ IF Head(queue) = "finish"
       THEN button' = "normal" /\ UNCHANGED shown
       ELSE shown' = Head(queue) /\ UNCHANGED button
    /\ UNCHANGED <<worker_pc, scalar_field, scalar_text, record_saved, images_downloaded,
                   pdf_saved, run_msgs, workers, ending, valueVars, cfgVars, dataVars, pdfVars,
                   renderVars, blockVars, extractVars, fileVars, mileageVars, settingsVars>>

InitApp ==
    /\ NormalizerUnused
    /\ PdfFresh
    /\ car_dir = NoDir
    /\ PagesUnused
    /\ LookupFilesAsLoaded

NextApp == StartParsing \/ StartParsingNoUrl \/ WorkerStep \/ ProcessQueue

SpecApp == InitApp /\ [][NextApp]_vars

\* the worker thread is scheduled as long as it has a step to take, and Tk
\* keeps calling _process_queue
SpecAppLive == SpecApp /\ WF_vars(WorkerStep) /\ WF_vars(ProcessQueue)

-----------------------------------------------------------------------------
(* SpecSettings: the parameter list and the settings tab of the window of
   app.py, and the two files their handlers rewrite *)

\* the window's state and the translation file, as the handlers see them
SettingsNow ==
    [ dict |-> parameters_dict, vars |-> parameter_vars, file |-> lookup_files.names ]

\* _update_config_file: the file is read, data's entries are laid over the
\* entries read (dict.update), and the result is written over the whole file.
\* json.dump and json.load give back the same strings, integers and lists.
update_config_file(file_data, data) == data @@ file_data

\* a variant of the handler that changes the flag in memory and writes no file
on_parameter_change_memory_only(st, parameter_name, value) ==
    [ st EXCEPT !.dict[parameter_name] = << @[1], value >> ]

\* _on_parameter_change
on_parameter_change(st, parameter_name, value) ==
    LET dict == [ st.dict EXCEPT ![parameter_name] = << @[1], value >> ]
    IN  [ dict |-> dict, vars |-> st.vars,
          file |-> update_config_file(st.file, dict) ]

\* the loop of _select_all_parameters and _deselect_all_parameters over the
\* labels of parameter_vars still to visit
RECURSIVE set_all_parameters(_, _, _)
set_all_parameters(st, todo, value) ==
    IF todo = {} THEN st
    ELSE LET parameter == CHOOSE p \in todo : TRUE
             set       == [ st EXCEPT !.vars[parameter] = value ]
         IN  set_all_parameters(on_parameter_change(set, parameter, value),
                                todo \ {parameter}, value)

\* a handler of the parameter list has run and left st
SettingsWrite(st) ==
    /\ parameters_dict' = st.dict
    /\ parameter_vars' = st.vars
    /\ lookup_files' = [ names |-> st.file, config |-> lookup_files.config ]
    /\ lookup_edits' = [ names |-> st.file, config |-> lookup_files.config, row |-> row_no ]
    /\ UNCHANGED <<empty_parameters_var, parameters_loaded, lookup_start, valueVars, cfgVars,
                   dataVars, pdfVars, renderVars, blockVars, extractVars, mileageVars,
                   appVars>>

\* a click on the checkbox of one label: Tk sets the variable to the other of
\* 0 and 1, then calls the command with the variable's value
ClickParameter ==
    \E parameter \in DOMAIN parameter_vars :
       LET value == IF parameter_vars[parameter] = 1 THEN 0 ELSE 1
           set   == [ SettingsNow EXCEPT !.vars[parameter] = value ]
       IN  SettingsWrite(on_parameter_change(set, parameter, value))

\* _select_all_parameters
SelectAllParameters ==
    SettingsWrite(set_all_parameters(SettingsNow, DOMAIN parameter_vars, 1))

\* _deselect_all_parameters
DeselectAllParameters ==
    SettingsWrite(set_all_parameters(SettingsNow, DOMAIN parameter_vars, 0))

\* a click on the checkbox of the settings tab, _on_empty_parameters_change:
\* config.json is updated, the translation file is not opened
ClickEmptyParameters ==
    LET value == IF empty_parameters_var = 1 THEN 0 ELSE 1
    IN  /\ empty_parameters_var' = value
        /\ lookup_files' = [ names |-> lookup_files.names, config |-> value ]
        /\ lookup_edits' = [ names |-> lookup_files.names, config |-> value, row |-> row_no ]
        /\ UNCHANGED <<parameters_dict, parameter_vars, parameters_loaded, lookup_start,
                       valueVars, cfgVars, dataVars, pdfVars, renderVars, blockVars,
                       extractVars, mileageVars, appVars>>

\* the window after __init__: _load_config has read both files and
\* _create_parameter_checkboxes has made one variable per label, set to the
\* label's flag
InitSettings ==
    /\ NormalizerUnused
    /\ PdfFresh
    /\ car_dir = NoDir
    /\ RenderUnused /\ BlockUnused /\ ExtractUnused /\ MileageUnused /\ AppFresh
    /\ \E labels \in SUBSET { "L" \o ToString(i) : i \in 1..MaxLabels } :
          /\ labels # {}
          /\ \E flags \in [labels -> {0, 1}], config \in {0, 1} :
                /\ lookup_files = [ names  |-> [ l \in labels |-> << <<"N", l>>, flags[l] >> ],
                                    config |-> config ]
                /\ parameter_vars = flags
                /\ empty_parameters_var = config
    /\ lookup_edits = [ names |-> lookup_files.names, config |-> lookup_files.config, row |-> 0 ]
    /\ lookup_start = lookup_files
    /\ parameters_dict = lookup_files.names
    /\ parameters_loaded = lookup_files.names

SpecSettings ==
    InitSettings /\ [][ClickParameter \/ SelectAllParameters
                         \/ DeselectAllParameters \/ ClickEmptyParameters]_vars

-----------------------------------------------------------------------------
(* Vocabulary of the claims about the value of one row *)

\* the cell is the option marker
IsMarker(c) == c = <<CIRCLE>>
NotMarker(c) == ~IsMarker(c)

\* the cell's text after the character-substitution rules
Cleaned(c) == ApplyReplacements(c, 1)

\* the cell is neither a marker nor empty after cleaning
Survives(c) == (\A i \in 1..Len(c) : c[i] # CIRCLE) /\ Cleaned(c) # <<>>

\* display value of a surviving cell: value_lookup hit, else the cleaned text
Display(c, vt) == IF Cleaned(c) \in DOMAIN vt THEN vt[Cleaned(c)] ELSE Cleaned(c)

\* the display values of cs joined by ', '
RECURSIVE JoinDisplay(_, _)
JoinDisplay(cs, vt) ==
    IF cs = <<>> THEN <<>>
    ELSE IF Len(cs) = 1 THEN Display(cs[1], vt)
    ELSE Display(cs[1], vt) \o SEP \o JoinDisplay(Tail(cs), vt)

ValueDone == value_pc = "done"

-----------------------------------------------------------------------------
(* Claims C1..C5, verified under SpecValue *)

\* C1: a row whose single value cell is empty after cleaning is dropped when
\* include_empty is false, and is emitted with the placeholder '-' when
\* include_empty is true.
C1_EmptyValuePolicy ==
    (/\ ValueDone
     /\ Len(cells) = 1
     /\ \A i \in 1..Len(cells[1]) : cells[1][i] # CIRCLE
     /\ Cleaned(cells[1]) = <<>>)
    => IF with_empty_parameters = 1
       THEN value_out = PyStr(DASH)
       ELSE ~Truthy(value_out)

\* C2: with include_empty false an empty cell contributes nothing, so a row
\* that has an empty cell and also a surviving cell with a non-empty display
\* value is still emitted.
C2_EmptyCellContributesNothing ==
    (/\ ValueDone
     /\ with_empty_parameters = 0
     /\ \E i \in 1..Len(cells) : NotMarker(cells[i]) /\ Cleaned(cells[i]) = <<>>
     /\ \E j \in 1..Len(cells) :
           Survives(cells[j]) /\ Display(cells[j], values_translation) # <<>>)
    => Truthy(value_out)

\* C3: when marker cells are mixed with other cells, in any positions, the
\* value is the one obtained from the non-marker cells alone, and the marker
\* glyph does not appear in it.
C3_MarkerCellsNeverContribute ==
    (/\ ValueDone
     /\ \E i \in 1..Len(cells) : IsMarker(cells[i])
     /\ \E j \in 1..Len(cells) : NotMarker(cells[j]))
    => /\ value_out = get_validate_and_translate_value(
                          SelectSeq(cells, NotMarker),
                          with_empty_parameters, values_translation)
       /\ \A k \in 1..Len(value_out.s) : value_out.s[k] # CIRCLE

\* C3 witness: a marker cell mixed with a surviving cell, and a value emitted.
C3_Witness ==
    /\ ValueDone
    /\ Len(cells) = 2
    /\ IsMarker(cells[1])
    /\ cells[2] = <<"A">>
    /\ values_translation = VT_none
    /\ value_out = PyStr(<<"A">>)

\* C4: when every cell survives, the value is exactly the display values
\* joined by ', ' in cell order, no character of a display value removed.
C4_ExactJoin ==
    (/\ ValueDone
     /\ cells # <<>>
     /\ \A i \in 1..Len(cells) : Survives(cells[i]) /\ ~Contains(Cleaned(cells[i]), CVT))
    => value_out = PyStr(JoinDisplay(cells, values_translation))

\* C5: a single cell whose cleaned text contains 'CVT' gives the display
\* value VARIATOR whatever values_translation holds.
C5_EngineOverride ==
    (/\ ValueDone
     /\ Len(cells) = 1
     /\ \A i \in 1..Len(cells[1]) : cells[1][i] # CIRCLE
     /\ Contains(Cleaned(cells[1]), CVT))
    => value_out = PyStr(VARIATOR)

-----------------------------------------------------------------------------
(* Claims C6 and C7, verified under SpecData *)

\* the label is in the field-name dictionary with its enabled flag set
LabelEnabled(l) == l \in DOMAIN names_dict /\ names_dict[l][2] # 0

\* C6: a row whose label is absent from the dictionary, or disabled, gives no
\* entry whatever its cells hold, and the pass goes on: every row is handled
\* once and the pass ends only after the last row.
C6_DisabledOrUnknownDropped ==
    /\ \A k \in 1..Len(result) : LabelEnabled(seen[result[k].src])
    /\ Len(seen) = row_no
    /\ data_pc = "done" => row_no = n_rows

\* C6 witness: a finished pass in which a disabled or unknown row was
\* followed by a row that was emitted.
C6_Witness ==
    /\ data_pc = "done"
    /\ \E i \in 1..Len(seen) :
          /\ seen[i] # NoLabel
          /\ ~LabelEnabled(seen[i])
          /\ \E k \in 1..Len(result) : result[k].src > i

\* C7: no entry of the result has an empty name or an empty value, and the
\* entries are in the order of the rows they come from.
C7_NormalizedRecordInvariant ==
    /\ \A k \in 1..Len(result) : result[k].name # <<>> /\ result[k].value # <<>>
    /\ \A j, k \in 1..Len(result) : j < k => result[j].src < result[k].src

\* C7 witness: a finished pass with two entries, over a dictionary that holds
\* an enabled label with an empty display name, a row of which was handled.
C7_Witness ==
    /\ data_pc = "done"
    /\ Len(result) >= 2
    /\ \E i \in 1..Len(seen) : LabelEnabled(seen[i]) /\ names_dict[seen[i]][1] = <<>>

-----------------------------------------------------------------------------
(* Claim C8, verified under SpecPdf *)

\* C8: for every wrapped line of a text block, the page is advanced before
\* the line exactly when cursor - line_spacing < margin, at most once; the
\* line is drawn at the cursor (the top of the new page after an advance),
\* the cursor then goes down by line_spacing and ends no lower than
\* margin - line_spacing; each line starts where the previous one ended.
C8_TextPageBreak ==
    /\ \A k \in 1..Len(last_lines) :
          LET e == last_lines[k]
          IN  /\ e.adv \in {0, 1}
              /\ e.adv = 1 <=> e.y0 - e.ls < DEFAULT_MARGIN
              /\ e.at = IF e.adv = 1 THEN TopOfPage ELSE e.y0
              /\ e.y1 = e.at - e.ls
              /\ e.y1 >= DEFAULT_MARGIN - e.ls
              /\ k > 1 => e.y0 = last_lines[k - 1].y1
    /\ last_lines # <<>> => y_cursor = last_lines[Len(last_lines)].y1

\* C8 witness: a block in which one line fitted and the next one crossed the
\* margin from a cursor inside the page, with an advance made before it.
C8_Witness ==
    \E k \in 2..Len(last_lines) :
       /\ last_lines[k - 1].adv = 0
       /\ last_lines[k].adv = 1
       /\ last_lines[k].y0 >= DEFAULT_MARGIN
       /\ pages >= 1

-----------------------------------------------------------------------------
(* Claims C9 and C10, verified under SpecGallery *)

\* the image files draw_images_from_dir can draw
Drawable(f) == HasImageSuffix(f.name) /\ f.readable /\ f.w > 0 /\ f.h > 0

\* C9: every readable image is drawn with draw_height = page_width * h / w;
\* the page is advanced before it exactly when
\* cursor - draw_height < 1.5 * margin, the cursor then being height - margin;
\* its bottom edge is at cursor - draw_height, and the cursor goes down by
\* draw_height + image_spacing.
C9_ImagePlacement ==
    /\ \A k \in 1..Len(last_images) :
          LET e   == last_images[k]
              top == IF e.adv = 1 THEN TopOfPage ELSE e.y0
          IN  /\ e.dh * e.w = PageWidth * e.h
              /\ e.adv \in {0, 1}
              /\ e.adv = 1 <=> 2 * (e.y0 - e.dh) < 3 * DEFAULT_MARGIN
              /\ e.bottom = top - e.dh
              /\ e.y1 = top - (e.dh + DEFAULT_IMAGE_SPACING)
              /\ k > 1 => e.y0 = last_images[k - 1].y1
    /\ last_images # <<>> =>
          /\ y_cursor = last_images[Len(last_images)].y1
          /\ { last_images[k].i : k \in 1..Len(last_images) }
                = { f.i : f \in { g \in car_dir.files : Drawable(g) } }

\* C9 witness: a pass that drew one image without an advance and a later one
\* after an advance.
C9_Witness ==
    \E j, k \in 1..Len(last_images) :
       /\ j < k
       /\ last_images[j].adv = 0
       /\ last_images[k].adv = 1
       /\ last_images[k].y0 > 0

\* C10: the images are drawn in the order of the URL list: an image drawn
\* before another one has the smaller URL number.
C10_ImagesInUrlOrder ==
    \A j, k \in 1..Len(last_images) :
       j < k => last_images[j].i < last_images[k].i

-----------------------------------------------------------------------------
(* Claims C11, C12 and C14, verified under SpecRender *)

\* C11: in a full render (main_app_flag true) no image is drawn while the text
\* is still being drawn, and every page that holds an image comes after every
\* page that holds text: a page break lies between the last text line and the
\* first image drawn, so no page holds both.
C11_TextGallerySeparation ==
    render_flag =>
        /\ render_pc \in {"text", "items", "images"} => image_pages = {}
        /\ \A p \in text_pages : \A q \in image_pages : p < q

\* the text filled its last page to the bottom, the first image file of the
\* listing could not be read, and an image was drawn all the same
C11_Witness ==
    /\ render_pc = "done" /\ render_flag
    /\ text_end.y - DEFAULT_LINE_SPACING < DEFAULT_MARGIN
    /\ image_pages # {}
    /\ \E f \in car_dir.files : f.i = 1 /\ ~f.readable

Malformed(f) == HasImageSuffix(f.name) /\ (~f.readable \/ f.w = 0 \/ f.h = 0)

\* C14: a malformed image file is skipped alone: the images drawn, the pages
\* started and the cursor left behind are those of the same directory without
\* the malformed files, and the document is finalized all the same.
C14_MalformedImageContained ==
    (render_pc \in {"save", "done"} /\ render_flag /\ car_dir.exists) =>
        LET clean == { f \in car_dir.files : ~Malformed(f) }
            ref   == draw_images_loop([y |-> -1, pages |-> text_end.pages, evs |-> <<>>],
                                      SortedListing(clean))
        IN  /\ last_images = ref.evs
            /\ y_cursor = ref.y
            /\ pages = ref.pages + saved
            /\ render_pc = "done" => saved = 1

\* a finalized render in which a malformed file lay between two images drawn
C14_Witness ==
    /\ render_pc = "done" /\ render_flag
    /\ \E f \in car_dir.files : Malformed(f) /\
          \E j, k \in 1..Len(last_images) :
             last_images[j].i < f.i /\ f.i < last_images[k].i

-----------------------------------------------------------------------------
(* Claim C13, verified under SpecPdf *)

\* C13: once save has run, no later writer call commits a further page or
\* moves the cursor (a second save or a later draw is refused).
C13_NothingAfterFinalize ==
    [][saved >= 1 => (pages' = pages /\ y_cursor' = y_cursor)]_vars

-----------------------------------------------------------------------------
(* Claim C15, verified under SpecBlock *)

\* C15: right after a text block was drawn with the empty string, the page
\* count and the cursor are what they were before the call, and no line was
\* drawn.
C15_EmptyTextBlockNoEffect ==
    (block_before.call = calls /\ block_text = <<>>) =>
        /\ y_cursor = block_before.y
        /\ pages = block_before.pages
        /\ last_lines = <<>>

\* the empty string was drawn after an image pass, with the cursor so low
\* that a line would have started a new page
C15_Witness ==
    /\ block_before.call = calls /\ block_text = <<>>
    /\ block_before.pages >= 1
    /\ block_before.y - DEFAULT_LINE_SPACING < DEFAULT_MARGIN

-----------------------------------------------------------------------------
(* Claim C16, verified under SpecExtract *)

\* the sources _extract_images does not skip, and the URL each stands for
KeptSrc(k) == page_srcs[k] # <<>> /\ ~Contains(page_srcs[k], SVG)
UrlOfSrc(k) == rewrite_src(page_srcs[k])
FirstSrcOf(url) ==
    CHOOSE k \in 1..Len(page_srcs) :
        /\ KeptSrc(k) /\ UrlOfSrc(k) = url
        /\ \A j \in 1..(k - 1) : ~(KeptSrc(j) /\ UrlOfSrc(j) = url)

\* C16: the list holds every URL of the page once and only once (sources that
\* are equal after the https/size rewrite are one URL), in the order of the
\* first occurrences.
C16_ImageDeduplication ==
    extract_pc = "done" =>
        /\ \A j, k \in 1..Len(images) : j # k => images[j] # images[k]
        /\ { images[k] : k \in 1..Len(images) }
              = { UrlOfSrc(k) : k \in { i \in 1..Len(page_srcs) : KeptSrc(i) } }
        /\ \A j, k \in 1..Len(images) :
              j < k => FirstSrcOf(images[j]) < FirstSrcOf(images[k])

\* two different sources that are the same URL after the rewrite, with
\* another URL between them
C16_Witness ==
    /\ extract_pc = "done"
    /\ Len(images) = 2
    /\ \E i, j, k \in 1..Len(page_srcs) :
          /\ i < j /\ j < k
          /\ page_srcs[i] # page_srcs[k] /\ UrlOfSrc(i) = UrlOfSrc(k)
          /\ KeptSrc(j) /\ UrlOfSrc(j) # UrlOfSrc(i)

-----------------------------------------------------------------------------
(* Claim C18, verified under SpecSnapshot *)

\* C18: every entry of the result follows the field-name dictionary and the
\* include-empty setting as the files held them when the pass started (the
\* label is enabled there, the name is the one given there, a "-" value
\* appears only if the setting was 1 there), and the files hold what the
\* settings window last wrote: the pass itself never writes them.
C18_LookupSnapshot ==
    /\ \A k \in 1..Len(result) :
          LET l == seen[result[k].src]
          IN  /\ l \in DOMAIN lookup_start.names
              /\ lookup_start.names[l][2] # 0
              /\ result[k].name = lookup_start.names[l][1]
              /\ result[k].value = DASH => lookup_start.config = 1
    /\ lookup_files = [names |-> lookup_edits.names, config |-> lookup_edits.config]

\* a pass is running, the dictionary file was rewritten during it, and a row
\* handled after that gave an entry although the file now disables its label
C18_Witness ==
    /\ data_pc = "rows"
    /\ lookup_files.names # lookup_start.names
    /\ \E k \in 1..Len(result) :
          /\ result[k].src > lookup_edits.row
          /\ lookup_files.names[seen[result[k].src]][2] = 0

-----------------------------------------------------------------------------
(* Claim C19, verified under SpecMileage *)

\* mileage * 10000 with its fraction cut off, and that integer in plain digits
ShownKm == IF mileage_e5 >= 0 THEN mileage_e5 \div 10 ELSE -((-mileage_e5) \div 10)
PlainDigits(n) == IF n < 0 THEN <<"-">> \o IntToStr(-n) ELSE IntToStr(n)

\* what stands between the label and the unit, without its sign
ShownNumber ==
    SubSeq(mileage_line, Len(MILEAGE_LABEL) + 1, Len(mileage_line) - Len(KM_SUFFIX))
ShownUnsigned == IF ShownKm < 0 THEN Tail(ShownNumber) ELSE ShownNumber
IsDigit(c) == c # ","

-----------------------------------------------------------------------------
(* Claims C17 and C20, verified under SpecApp and SpecAppLive *)

\* the run was cut short: nothing stored, nothing downloaded, no PDF, the
\* worker in or past its except branch, and an error message once it is over
RunAborted ==
    /\ ~record_saved /\ ~images_downloaded /\ ~pdf_saved
    /\ worker_pc \in {"except", "finally", "idle"}
    /\ worker_pc \in {"finally", "idle"} => InList("error", run_msgs)

ScalarConverted == scalar_field \in {"price", "mileage"}

\* C17 as stated: a price or mileage text with any character the
\* substitution table does not hold makes the conversion fail and aborts the
\* run: no record saved, no image downloaded, no PDF created.
C17_UncoveredCharAborts ==
    (ScalarConverted /\ \E k \in 1..Len(scalar_text) :
                           scalar_text[k] \notin DOMAIN SPECIAL_CHARS_TO_NUMBERS)
    => RunAborted

\* a character that neither the table holds nor a decimal numeral can hold
NotNumeric(c) ==
    c \notin DOMAIN SPECIAL_CHARS_TO_NUMBERS /\ c # "." /\ ~InList(c, DigitChars)

\* C17 amended: a price or mileage text with a character that is neither in
\* the substitution table nor part of a decimal numeral makes the conversion
\* fail and aborts the run: no record saved, no image downloaded, no PDF
\* created, an error message reported.
C17_NonNumericCharAborts ==
    (ScalarConverted /\ \E k \in 1..Len(scalar_text) : NotNumeric(scalar_text[k]))
    => RunAborted

\* a run has ended whose price was converted and whose mileage text held
\* such a character
C17_Witness ==
    /\ worker_pc = "idle"
    /\ scalar_field = "mileage"
    /\ \E k \in 1..Len(scalar_text) : NotNumeric(scalar_text[k])
    /\ InList("error", run_msgs)

\* the ("finish", None) messages the run has put
FinishCount == Cardinality({ k \in 1..Len(run_msgs) : run_msgs[k] = "finish" })

FinishOnceAndLast ==
    /\ worker_pc # "idle" => FinishCount = 0
    /\ (worker_pc = "idle" /\ run_msgs # <<>>) =>
          FinishCount = 1 /\ run_msgs[Len(run_msgs)] = "finish"

\* C20: a run puts no ("finish", None) while its worker is running and has
\* put exactly one, as its last message, once the worker has ended, whether
\* it raised or not; and a disabled parse button is eventually enabled again.
C20_UnlockLiveness ==
    /\ []FinishOnceAndLast
    /\ (button = "disabled") ~> (button = "normal")

\* a run that raised is over and the window is unlocked again
C20_Witness ==
    /\ button = "normal"
    /\ worker_pc = "idle"
    /\ queue = <<>>
    /\ InList("error", run_msgs)
    /\ run_msgs[Len(run_msgs)] = "finish"

-----------------------------------------------------------------------------
(* C21: one pass at a time (SpecApp) *)

\* worker threads that are alive: in the pass, or on their way out of it
LiveWorkers == workers + ending

\* C21, as stated: at most one worker thread is alive, and the parse button
\* is enabled only when none is.  Violated: the button is enabled again as
\* soon as "finish" is taken from the queue, and the thread that put it has
\* not ended yet.
C21_OneLiveWorker ==
    /\ LiveWorkers <= 1
    /\ button = "normal" => LiveWorkers = 0

\* C21, amended: at most one worker thread is in the pass (has not put its
\* "finish" yet), that thread is the one worker_pc follows, the parse button
\* is enabled only when no thread is in the pass, and after a click with an
\* empty URL the button is still enabled and no thread is in the pass.
C21_OneWorkerInPass ==
    /\ workers <= 1
    /\ workers = 1 <=> worker_pc # "idle"
    /\ button = "normal" => workers = 0
    /\ shown = "hint" => (button = "normal" /\ workers = 0)

\* a second pass is under way while the thread of the first has not ended
C21_Witness ==
    /\ workers = 1 /\ ending >= 1
    /\ button = "disabled"
    /\ worker_pc = "pdf"

-----------------------------------------------------------------------------
(* C22: what "PDF file created!" stands for (SpecApp) *)

\* C22: if the run has reported "PDF file created!", the run saved the
\* listing record and finalized a PDF document (writer.save() ran).
\* Violated: create_pdf returns without saving when it cannot read the
\* record, and the worker reports the message after any return.
C22_CreatedMeansSaved ==
    InList("pdf_created", run_msgs) => (record_saved /\ pdf_saved)

-----------------------------------------------------------------------------
(* C23: the bottom edge of a drawn image (SpecGallery) *)

\* C23: the bottom edge of every drawn image, cursor - draw_height at the
\* time of drawing, is at or above 1.5 * margin, also right after a page
\* advance.  Violated: an image higher than the usable page is drawn at full
\* page width on the fresh page and reaches below the limit.
C23_ImageAboveBottomLimit ==
    \A k \in 1..Len(last_images) :
       2 * last_images[k].bottom >= 3 * DEFAULT_MARGIN

-----------------------------------------------------------------------------
(* C24: the selection is persisted (SpecSettings) *)

\* C24: after any sequence of checkbox clicks, "select all" and "deselect
\* all", the translation file holds exactly the labels it held when the
\* window loaded it, each with the display name it had, and the flag stored
\* for every label equals the flag in memory and the value of the label's
\* checkbox; the file is what the next pass of get_data reads.
C24_SelectionPersisted ==
    /\ DOMAIN lookup_files.names = DOMAIN parameters_loaded
    /\ DOMAIN parameters_dict = DOMAIN parameters_loaded
    /\ DOMAIN parameter_vars = DOMAIN parameters_loaded
    /\ \A l \in DOMAIN parameters_loaded :
          /\ lookup_files.names[l][1] = parameters_loaded[l][1]
          /\ parameters_dict[l][1] = parameters_loaded[l][1]
          /\ lookup_files.names[l][2] = parameters_dict[l][2]
          /\ parameters_dict[l][2] = parameter_vars[l]

\* C24 witness: handlers have run on a list of three labels: the file's flag
\* differs from the loaded one in a label loaded as selected and in a label
\* loaded as not selected, and is the loaded one in a third label.
C24_Witness ==
    \E l, m \in DOMAIN parameters_loaded :
       /\ l # m
       /\ parameters_loaded[l][2] = parameters_loaded[m][2]
       /\ lookup_files.names[l][2] # parameters_loaded[l][2]
       /\ lookup_files.names[m][2] = parameters_loaded[m][2]
       /\ \E k \in DOMAIN parameters_loaded :
             /\ k # l /\ k # m
             /\ lookup_files.names[k][2] # parameters_loaded[k][2]
             /\ parameters_loaded[k][2] # parameters_loaded[l][2]

=============================================================================
